---- MODULE Spec2Model ----
(***************************************************************************)
(* VaporSur steam-node controller (src/src/code-v1.py; code-v2.py has the  *)
(* same control logic under Spanish names and differs only in the status   *)
(* labels and the colour selection).                                       *)
(*                                                                         *)
(* One iteration of the "while True" loop is one step.  Numbers:           *)
(*   - time is counted in centiseconds (1 cs = 0.01 s, the loop's sleep);  *)
(*   - pressure and temperature are fixed-point, Scale units per kPa / C,  *)
(*     so that the process response (50 - MV_pct) * dt * 0.1 with          *)
(*     dt = step / 2 is the exact integer (50 - MV_pct) * step_cs;         *)
(*   - the ESD decay (current - initial) * dt * 0.2 is                     *)
(*     (current - initial) * step_cs / 1000, truncated to the grid;        *)
(*   - MV_pct and SH_cmd only ever hold whole percents.                    *)
(***************************************************************************)
EXTENDS Integers, Sequences, FiniteSets, TLC

(* ------------------------------ bounds --------------------------------- *)
\* last time sample (cs) at which a loop iteration may still start
MaxTime == 7200

\* a run followed for its progress: its horizon (cs), and the time by which
\* a shutdown must be active to be followed to its end
LiveMaxTime == 5600
LiveDeadline == 3200
\* the encoder's hardware position stays within -MaxEnc .. MaxEnc
MaxEnc == 50
\* encoder movement between two samples
EncStep == 50
\* time between two samples of time.monotonic(), in cs (dt = 4 s): the
\* process is watched at a coarse rate so that the thresholds are reached
\* within MaxTime
LongStep == 800

Steps == {LongStep}
EncMoves == {0 - EncStep, 0, EncStep}

\* a run with stalled iterations: the step (cs) and the horizon (cs)
StallStep == 13000
StallMaxTime == 52000

\* a run with a finely turned encoder: counts per tick and horizon (cs)
SmallEncStep == 13
ManualMaxTime == 4800
SmallMoves == {0 - SmallEncStep, 0, SmallEncStep}

\* a run sampled at the loop's own rate: a short iteration, an iteration
\* that holds the mode-change blink, and the horizon (cs)
ShortStep == 6
ToggleStep == 60
FineMaxTime == 420
FineSteps == {ShortStep, ToggleStep}

\* records the simulated port generates in a run
MaxRecords == 103

(* --------------------------- program constants ------------------------- *)
Scale == 2000

\* variant: another starting pressure
P_INITIAL_Low == 280 * Scale

P_INITIAL == 300 * Scale
T_INITIAL == 150 * Scale
P_WARN_HIGH == 380 * Scale
P_EMERG_HIGH == 460 * Scale
P_WARN_LOW == 250 * Scale
P_RECOVERY == 220 * Scale
T_WARN_HIGH == 170 * Scale
T_EMERG_HIGH == 190 * Scale
T_WARN_LOW == 120 * Scale
T_PREHEAT == 110 * Scale
ESD_P_TOLERANCE == 5 * Scale
ESD_T_TOLERANCE == 3 * Scale
HYSTERESIS == 20 * Scale
MV_MIN == 0
MV_MAX == 100
SH_MIN == 0
SH_MAX == 100
ENC_SENSITIVITY_P == 2
ENC_SENSITIVITY_T == 1
SW_DEBOUNCE_MS == 120
LOG_INTERVAL_CS == 10
STANDBY_END_CS == 300
SLEEP_TICK_CS == 1
SLEEP_STANDBY_CS == 5
SLEEP_TOGGLE_CS == 57

RGB_GREEN == <<0, 255, 0>>
RGB_ORANGE == <<255, 165, 0>>
RGB_RED == <<255, 0, 0>>
RGB_CYAN == <<0, 255, 255>>
RGB_OFF == <<0, 0, 0>>

MODE_NAMES == <<"PRESION", "TEMPERATURA">>

(* ------------------------------ helpers -------------------------------- *)
abs(x) == IF x < 0 THEN 0 - x ELSE x
max(a, b) == IF a >= b THEN a ELSE b
min(a, b) == IF a <= b THEN a ELSE b

\* variant: the upper limit is not applied
Clamp_LowerOnly(lo, hi, v) == max(lo, v)

\* max(lo, min(hi, v)) as written at the manual adjustment
Clamp(lo, hi, v) == max(lo, min(hi, v))

\* "{:.1f}".format(v): v (fixed-point) rounded to tenths of a unit
Fmt1(v) == (v * 10 + (Scale \div 2)) \div Scale

VARIABLES
  P_sim_kPa, T_sim, MV_pct, SH_cmd, mode,
  pressure_recovery_active, preheat_active,
  last_enc_sw_state, last_enc_sw_time,
  esd_active, esd_btn_state_last, esd_ready_to_reset,
  last_update_time, last_log,
  encoder_position, last_enc_pos, delta_pos,
  estado_sistema, relief_activo, purga_activa, flow_state,
  do_flow, do_laser, do_relief, do_purga_a, rgb_color,
  output_data,
  slept,      \* total time.sleep() of the last iteration, in cs
  phase,      \* which path the last iteration took
  start,      \* values the last iteration found when it began
  conv,       \* values read by the convergence test of the last ESD branch
  writers,    \* who wrote MV_pct / SH_cmd in the last iteration
  ran         \* which parts of the loop body the last iteration executed

vars == << P_sim_kPa, T_sim, MV_pct, SH_cmd, mode,
           pressure_recovery_active, preheat_active,
           last_enc_sw_state, last_enc_sw_time,
           esd_active, esd_btn_state_last, esd_ready_to_reset,
           last_update_time, last_log,
           encoder_position, last_enc_pos, delta_pos,
           estado_sistema, relief_activo, purga_activa, flow_state,
           do_flow, do_laser, do_relief, do_purga_a, rgb_color,
           output_data, slept, phase, start, conv, writers, ran >>

\* the program state as one record, threaded through the stages of the loop
State ==
  [ P_sim_kPa |-> P_sim_kPa, T_sim |-> T_sim, MV_pct |-> MV_pct,
    SH_cmd |-> SH_cmd, mode |-> mode,
    pressure_recovery_active |-> pressure_recovery_active,
    preheat_active |-> preheat_active,
    last_enc_sw_state |-> last_enc_sw_state,
    last_enc_sw_time |-> last_enc_sw_time,
    esd_active |-> esd_active, esd_btn_state_last |-> esd_btn_state_last,
    esd_ready_to_reset |-> esd_ready_to_reset,
    last_log |-> last_log,
    last_enc_pos |-> last_enc_pos, delta_pos |-> delta_pos,
    estado_sistema |-> estado_sistema, relief_activo |-> relief_activo,
    purga_activa |-> purga_activa, flow_state |-> flow_state,
    do_flow |-> do_flow, do_laser |-> do_laser, do_relief |-> do_relief,
    do_purga_a |-> do_purga_a, rgb_color |-> rgb_color,
    output_data |-> output_data,
    slept |-> SLEEP_TICK_CS, conv |-> <<>>, writers |-> {}, ran |-> {} ]

\* what an iteration finds when it begins
Snapshot ==
  [ P |-> P_sim_kPa, T |-> T_sim, MV |-> MV_pct, SH |-> SH_cmd,
    mode |-> mode, esd_active |-> esd_active,
    ready |-> esd_ready_to_reset,
    rec |-> pressure_recovery_active, pre |-> preheat_active,
    btn |-> esd_btn_state_last ]

NoOutput == [ emitted |-> FALSE ]

\* the state after the module-level assignments: both buttons are sampled
\* once there (pulled up, so TRUE unless held down at start)
(* ------------- the simulated serial port (UI/pico_simulator.py) -------- *)
\* VirtualSerialPort: a generator thread appends records to data_queue and
\* the caller of readline() takes them out; the two run concurrently and
\* every statement below is one step of its thread
VARIABLES
  data_queue,   \* self.data_queue, records named by their generation number
  running,      \* self.running
  gen_pc,       \* where the generator thread is in _generate_data
  rd_pc,        \* where the caller is in readline / close
  produced,     \* number of records generated so far
  last_read,    \* the last record readline returned (0: none yet)
  in_order,     \* readline has returned records in increasing order so far
  raised        \* threads ended by an IndexError of pop(0) on an empty list

simvars == << data_queue, running, gen_pc, rd_pc, produced, last_read,
              in_order, raised >>

\* if len(self.data_queue) > 100
QUEUE_LIMIT == 100

\* VirtualSerialPort.__init__
PortInit ==
  /\ data_queue = <<>>
  /\ running = TRUE
  /\ gen_pc = "loop"
  /\ rd_pc = "idle"
  /\ produced = 0
  /\ last_read = 0
  /\ in_order = TRUE
  /\ raised = {}

Init ==
  /\ P_sim_kPa = P_INITIAL
  /\ T_sim = T_INITIAL
  /\ MV_pct = 50
  /\ SH_cmd = 50
  /\ mode = 0
  /\ pressure_recovery_active = FALSE
  /\ preheat_active = FALSE
  /\ last_enc_sw_state \in BOOLEAN
  /\ last_enc_sw_time = 0
  /\ esd_active = FALSE
  /\ esd_btn_state_last \in BOOLEAN
  /\ esd_ready_to_reset = FALSE
  /\ last_update_time = 0
  /\ last_log = 0
  /\ encoder_position = 0
  /\ last_enc_pos = 0
  /\ delta_pos = 0
  /\ estado_sistema = "Normal"
  /\ relief_activo = "No"
  /\ purga_activa = "No"
  /\ flow_state = "None"
  /\ do_flow = FALSE
  /\ do_laser = FALSE
  /\ do_relief = FALSE
  /\ do_purga_a = FALSE
  /\ rgb_color = RGB_OFF
  /\ output_data = NoOutput
  /\ slept = 0
  /\ phase = "init"
  /\ start = Snapshot
  /\ conv = <<>>
  /\ writers = {}
  /\ ran = {}
  /\ PortInit

(* ------------------- stage: ESD button (lines 206-216) ----------------- *)
\* variant: the button level is taken for an edge
FallingEdge_Level(last, cur) == ~cur

\* esd_btn_state != esd_btn_state_last and not esd_btn_state
FallingEdge(last, cur) == cur # last /\ ~cur

\* variant: the reset branch does not test esd_ready_to_reset
ESDButton_ResetAnytime(s, esd_btn_state) ==
  LET s1 == IF esd_btn_state # s.esd_btn_state_last /\ ~esd_btn_state
            THEN IF ~s.esd_active
                 THEN [s EXCEPT !.esd_active = TRUE,
                                !.esd_ready_to_reset = FALSE]
                 ELSE [s EXCEPT !.esd_active = FALSE]
            ELSE s
  IN [s1 EXCEPT !.esd_btn_state_last = esd_btn_state]

\* variant: an edge during the shutdown arms the reset
ESDButton_EdgeArms(s, esd_btn_state) ==
  LET s1 == IF FallingEdge(s.esd_btn_state_last, esd_btn_state)
            THEN IF ~s.esd_active
                 THEN [s EXCEPT !.esd_active = TRUE,
                                !.esd_ready_to_reset = FALSE]
                 ELSE IF s.esd_ready_to_reset
                      THEN [s EXCEPT !.esd_active = FALSE]
                      ELSE [s EXCEPT !.esd_ready_to_reset = TRUE]
            ELSE s
  IN [s1 EXCEPT !.esd_btn_state_last = esd_btn_state]

ESDButton(s, esd_btn_state) ==
  LET s1 == IF FallingEdge(s.esd_btn_state_last, esd_btn_state)
            THEN IF ~s.esd_active
                 THEN [s EXCEPT !.esd_active = TRUE,
                                !.esd_ready_to_reset = FALSE]
                 ELSE IF s.esd_ready_to_reset
                      THEN [s EXCEPT !.esd_active = FALSE]
                      ELSE s
            ELSE s
  IN [s1 EXCEPT !.esd_btn_state_last = esd_btn_state]

(* ------------- stage: normal operation (lines 219-340) ----------------- *)
\* variant: the emergency limits are compared with > instead of >=
TripCondition_Strict(p, t) == p > P_EMERG_HIGH \/ t > T_EMERG_HIGH

\* P_sim_kPa >= P_EMERG_HIGH or T_sim >= T_EMERG_HIGH
TripCondition(p, t) == p >= P_EMERG_HIGH \/ t >= T_EMERG_HIGH

\* variant: only the pressure limit trips
AutoTrip_PressureOnly(s) ==
  IF s.P_sim_kPa >= P_EMERG_HIGH
  THEN [s EXCEPT !.esd_active = TRUE, !.esd_ready_to_reset = FALSE]
  ELSE s

AutoTrip(s) ==
  IF TripCondition(s.P_sim_kPa, s.T_sim)
  THEN [s EXCEPT !.esd_active = TRUE, !.esd_ready_to_reset = FALSE]
  ELSE s

\* variant: the exit tests are missing
OverrideLatches_NoExit(s) ==
  LET a == IF s.P_sim_kPa <= P_RECOVERY /\ ~s.pressure_recovery_active
           THEN [s EXCEPT !.pressure_recovery_active = TRUE] ELSE s
      b == IF a.T_sim <= T_PREHEAT /\ ~a.preheat_active
           THEN [a EXCEPT !.preheat_active = TRUE] ELSE a
  IN b

\* variant: the exit tests use the entry thresholds (no band)
OverrideLatches_NoBand(s) ==
  LET a == IF s.P_sim_kPa <= P_RECOVERY /\ ~s.pressure_recovery_active
           THEN [s EXCEPT !.pressure_recovery_active = TRUE] ELSE s
      b == IF a.T_sim <= T_PREHEAT /\ ~a.preheat_active
           THEN [a EXCEPT !.preheat_active = TRUE] ELSE a
      c == IF b.pressure_recovery_active /\ b.P_sim_kPa > P_RECOVERY
           THEN [b EXCEPT !.pressure_recovery_active = FALSE] ELSE b
      d == IF c.preheat_active /\ c.T_sim > T_PREHEAT
           THEN [c EXCEPT !.preheat_active = FALSE] ELSE c
  IN d

\* the two entry tests, then the two exit tests
OverrideLatches(s) ==
  LET a == IF s.P_sim_kPa <= P_RECOVERY /\ ~s.pressure_recovery_active
           THEN [s EXCEPT !.pressure_recovery_active = TRUE] ELSE s
      b == IF a.T_sim <= T_PREHEAT /\ ~a.preheat_active
           THEN [a EXCEPT !.preheat_active = TRUE] ELSE a
      c == IF b.pressure_recovery_active
              /\ b.P_sim_kPa > P_RECOVERY + HYSTERESIS
           THEN [b EXCEPT !.pressure_recovery_active = FALSE] ELSE b
      d == IF c.preheat_active /\ c.T_sim > T_PREHEAT + HYSTERESIS
           THEN [c EXCEPT !.preheat_active = FALSE] ELSE c
  IN [d EXCEPT !.ran = @ \cup {"latches"}]

\* variant: the two sensitivities are exchanged
ManualAdjust_SwappedGain(s) ==
  IF ~s.pressure_recovery_active /\ ~s.preheat_active
  THEN IF s.mode = 0
       THEN [s EXCEPT !.MV_pct = Clamp(MV_MIN, MV_MAX,
                          s.MV_pct + s.delta_pos * ENC_SENSITIVITY_T),
                      !.writers = @ \cup {"manual"}]
       ELSE [s EXCEPT !.SH_cmd = Clamp(SH_MIN, SH_MAX,
                          s.SH_cmd + s.delta_pos * ENC_SENSITIVITY_P),
                      !.writers = @ \cup {"manual"}]
  ELSE s

\* variant: the adjustment does not look at the override latches
ManualAdjust_NoGuard(s) ==
  IF s.mode = 0
  THEN [s EXCEPT !.MV_pct = Clamp(MV_MIN, MV_MAX,
                     s.MV_pct + s.delta_pos * ENC_SENSITIVITY_P),
                 !.writers = @ \cup {"manual"}]
  ELSE [s EXCEPT !.SH_cmd = Clamp(SH_MIN, SH_MAX,
                     s.SH_cmd + s.delta_pos * ENC_SENSITIVITY_T),
                 !.writers = @ \cup {"manual"}]

ManualAdjust(s) ==
  IF ~s.pressure_recovery_active /\ ~s.preheat_active
  THEN IF s.mode = 0
       THEN [s EXCEPT !.MV_pct = Clamp(MV_MIN, MV_MAX,
                          s.MV_pct + s.delta_pos * ENC_SENSITIVITY_P),
                      !.writers = @ \cup {"manual"}]
       ELSE [s EXCEPT !.SH_cmd = Clamp(SH_MIN, SH_MAX,
                          s.SH_cmd + s.delta_pos * ENC_SENSITIVITY_T),
                      !.writers = @ \cup {"manual"}]
  ELSE s

\* variant: only the valve is forced, the heater is left as it is
OverrideForcing_ValveOnly(s) ==
  IF s.pressure_recovery_active
  THEN [s EXCEPT !.MV_pct = 0,
                 !.estado_sistema = "Recuperacion Presion",
                 !.writers = @ \cup {"forcing"}]
  ELSE s

\* variant: while Pressure-Recovery is active Preheat forces nothing
OverrideForcing_OneAtATime(s) ==
  LET a == IF s.pressure_recovery_active
           THEN [s EXCEPT !.MV_pct = 0,
                          !.estado_sistema = "Recuperacion Presion",
                          !.writers = @ \cup {"forcing"}]
           ELSE s
      b == IF a.preheat_active /\ ~a.pressure_recovery_active
           THEN [a EXCEPT !.SH_cmd = 100,
                          !.estado_sistema = "Precalentamiento",
                          !.writers = @ \cup {"forcing"}]
           ELSE a
  IN b

OverrideForcing(s) ==
  LET a == IF s.pressure_recovery_active
           THEN [s EXCEPT !.MV_pct = 0,
                          !.estado_sistema = "Recuperacion Presion",
                          !.writers = @ \cup {"forcing"}]
           ELSE s
      b == IF a.preheat_active
           THEN [a EXCEPT !.SH_cmd = 100,
                          !.estado_sistema = "Precalentamiento",
                          !.writers = @ \cup {"forcing"}]
           ELSE a
  IN b

\* (50.0 - MV_pct) * dt * 0.1 with dt = step / 2, in fixed-point units
Response(pct, step) == (50 - pct) * step

\* variant: the results are not floored at zero
ProcessResponse_NoFloor(s, step) ==
  LET p == IF s.MV_pct < 50 THEN s.P_sim_kPa + Response(s.MV_pct, step)
           ELSE IF s.MV_pct > 50
                THEN s.P_sim_kPa - (0 - Response(s.MV_pct, step))
                ELSE s.P_sim_kPa
      t == IF s.SH_cmd > 50 THEN s.T_sim + (0 - Response(s.SH_cmd, step))
           ELSE IF s.SH_cmd < 50
                THEN s.T_sim - Response(s.SH_cmd, step)
                ELSE s.T_sim
  IN [s EXCEPT !.P_sim_kPa = p, !.T_sim = t]

ProcessResponse(s, step) ==
  LET p == IF s.MV_pct < 50 THEN s.P_sim_kPa + Response(s.MV_pct, step)
           ELSE IF s.MV_pct > 50
                THEN s.P_sim_kPa - (0 - Response(s.MV_pct, step))
                ELSE s.P_sim_kPa
      t == IF s.SH_cmd > 50 THEN s.T_sim + (0 - Response(s.SH_cmd, step))
           ELSE IF s.SH_cmd < 50
                THEN s.T_sim - Response(s.SH_cmd, step)
                ELSE s.T_sim
  IN [s EXCEPT !.P_sim_kPa = max(p, 0), !.T_sim = max(t, 0)]

\* variant: a window of 50 ms
DebounceElapsed_Short(now, since) == (now - since) * 10 > 50

\* (now - last_enc_sw_time) * 1000.0 > SW_DEBOUNCE_MS
DebounceElapsed(now, since) == (now - since) * 10 > SW_DEBOUNCE_MS

ModeButton(s, sw_state, now) ==
  IF sw_state # s.last_enc_sw_state
  THEN [s EXCEPT !.last_enc_sw_time = now, !.last_enc_sw_state = sw_state]
  ELSE IF (~sw_state) /\ DebounceElapsed(now, s.last_enc_sw_time)
       THEN [s EXCEPT !.mode = 1 - s.mode,
                      !.slept = @ + SLEEP_TOGGLE_CS,
                      !.last_enc_sw_time = now]
       ELSE s

\* variant: the relief output is left as the shutdown set it
SafetyValvesOff_PurgeOnly(s) ==
  [s EXCEPT !.do_purga_a = FALSE, !.purga_activa = "No"]

SafetyValvesOff(s) ==
  [s EXCEPT !.do_relief = FALSE, !.relief_activo = "No",
            !.do_purga_a = FALSE, !.purga_activa = "No"]

StatusLabel(s) ==
  LET quiet == ~s.pressure_recovery_active /\ ~s.preheat_active
  IN IF s.mode = 0
     THEN IF s.P_sim_kPa >= P_WARN_HIGH
          THEN [s EXCEPT !.estado_sistema = "Advertencia Presion Alta"]
          ELSE IF s.P_sim_kPa <= P_WARN_LOW
               THEN [s EXCEPT !.estado_sistema = "Advertencia Presion Baja"]
               ELSE IF quiet THEN [s EXCEPT !.estado_sistema = "Normal"]
                    ELSE s
     ELSE IF s.T_sim >= T_EMERG_HIGH
          THEN [s EXCEPT !.estado_sistema = "Emergencia Temperatura"]
          ELSE IF s.T_sim >= T_WARN_HIGH
               THEN [s EXCEPT !.estado_sistema =
                                 "Advertencia Temperatura Alta"]
               ELSE IF s.T_sim <= T_WARN_LOW
                    THEN [s EXCEPT !.estado_sistema =
                                      "Advertencia Temperatura Baja"]
                    ELSE IF quiet THEN [s EXCEPT !.estado_sistema = "Normal"]
                         ELSE s

FlowA(p, t) == (p >= 310 * Scale /\ p <= 350 * Scale)
               /\ (t >= 140 * Scale /\ t <= 160 * Scale)
\* variant: the B temperature band ends at 165
FlowB_Narrow(p, t) == (p >= 260 * Scale /\ p <= 300 * Scale)
                      /\ (t >= 160 * Scale /\ t <= 165 * Scale)

FlowB(p, t) == (p >= 260 * Scale /\ p <= 300 * Scale)
               /\ (t >= 160 * Scale /\ t <= 170 * Scale)

\* int(now * 5) % 2 == 0
BlinkOn(now) == (now \div 20) % 2 = 0

\* variant: the classification does not look at the override latches
FlowClassify_IgnoreLatches(s, now) ==
  LET f == IF FlowA(s.P_sim_kPa, s.T_sim) THEN <<"A", BlinkOn(now)>>
           ELSE IF FlowB(s.P_sim_kPa, s.T_sim) THEN <<"B", TRUE>>
           ELSE <<"None", FALSE>>
  IN [s EXCEPT !.flow_state = f[1], !.do_flow = f[2],
               !.do_laser = s.do_relief \/ s.do_purga_a,
               !.ran = @ \cup {"flow"}]

FlowClassify(s, now) ==
  LET f == IF ~s.pressure_recovery_active /\ ~s.preheat_active
           THEN IF FlowA(s.P_sim_kPa, s.T_sim) THEN <<"A", BlinkOn(now)>>
                ELSE IF FlowB(s.P_sim_kPa, s.T_sim) THEN <<"B", TRUE>>
                ELSE <<"None", FALSE>>
           ELSE <<"None", FALSE>>
  IN [s EXCEPT !.flow_state = f[1], !.do_flow = f[2],
               !.do_laser = s.do_relief \/ s.do_purga_a,
               !.ran = @ \cup {"flow"}]

\* variant: the mode button is handled outside the test of esd_active, so
\* the iteration that trips automatically still samples it
NormalOperation_ToggleOnTrip(s, pos, sw_state, now, step) ==
  LET s1 == [s EXCEPT !.delta_pos = pos - s.last_enc_pos,
                      !.last_enc_pos = pos,
                      !.estado_sistema = "Normal",
                      !.ran = @ \cup {"encoder"}]
      s2 == AutoTrip(s1)
  IN IF s2.esd_active THEN ModeButton(s2, sw_state, now)
     ELSE FlowClassify(
            StatusLabel(
              SafetyValvesOff(
                ModeButton(
                  ProcessResponse(
                    OverrideForcing(ManualAdjust(OverrideLatches(s2))),
                    step),
                  sw_state, now))),
            now)

NormalOperation(s, pos, sw_state, now, step) ==
  LET s1 == [s EXCEPT !.delta_pos = pos - s.last_enc_pos,
                      !.last_enc_pos = pos,
                      !.estado_sistema = "Normal",
                      !.ran = @ \cup {"encoder"}]
      s2 == AutoTrip(s1)
  IN IF s2.esd_active THEN s2
     ELSE FlowClassify(
            StatusLabel(
              SafetyValvesOff(
                ModeButton(
                  ProcessResponse(
                    OverrideForcing(ManualAdjust(OverrideLatches(s2))),
                    step),
                  sw_state, now))),
            now)

(* ----------------- stage: ESD mode (lines 343-406) --------------------- *)
\* variant: the relief and the purge take nothing away
Decay_None(excess, step) == 0

\* variant: twice the rate
Decay_Double(excess, step) ==
  2 * ((excess \div 1000) * step + ((excess % 1000) * step) \div 1000)

\* (current - initial) * dt * 0.2 with dt = step / 2, truncated to the grid:
\* (excess * step) \div 1000, split so that the product stays in range
Decay(excess, step) ==
  (excess \div 1000) * step + ((excess % 1000) * step) \div 1000

\* variant: below nominal the valve is left at 50
ESDPressureControl_NoClose(s, step) ==
  LET current_P == s.P_sim_kPa
  IN IF abs(current_P - P_INITIAL) > ESD_P_TOLERANCE
     THEN IF current_P > P_INITIAL
          THEN [s EXCEPT !.do_relief = TRUE, !.relief_activo = "Si",
                         !.MV_pct = 50,
                         !.P_sim_kPa = @ - Decay(current_P - P_INITIAL, step),
                         !.estado_sistema = "ESD: Reduciendo Presion"]
          ELSE [s EXCEPT !.do_relief = FALSE, !.relief_activo = "No",
                         !.MV_pct = 50,
                         !.estado_sistema = "ESD: Aumentando Presion"]
     ELSE [s EXCEPT !.do_relief = FALSE, !.relief_activo = "No",
                    !.MV_pct = 50]

\* variant: no tolerance band, any pressure other than nominal is acted on
ESDPressureControl_NoDeadband(s, step) ==
  LET current_P == s.P_sim_kPa
  IN IF current_P # P_INITIAL
     THEN IF current_P > P_INITIAL
          THEN [s EXCEPT !.do_relief = TRUE, !.relief_activo = "Si",
                         !.MV_pct = 50,
                         !.P_sim_kPa = @ - Decay(current_P - P_INITIAL, step),
                         !.estado_sistema = "ESD: Reduciendo Presion"]
          ELSE [s EXCEPT !.do_relief = FALSE, !.relief_activo = "No",
                         !.MV_pct = 0,
                         !.estado_sistema = "ESD: Aumentando Presion"]
     ELSE [s EXCEPT !.do_relief = FALSE, !.relief_activo = "No",
                    !.MV_pct = 50]

ESDPressureControl(s, step) ==
  LET current_P == s.P_sim_kPa
  IN IF abs(current_P - P_INITIAL) > ESD_P_TOLERANCE
     THEN IF current_P > P_INITIAL
          THEN [s EXCEPT !.do_relief = TRUE, !.relief_activo = "Si",
                         !.MV_pct = 50,
                         !.P_sim_kPa = @ - Decay(current_P - P_INITIAL, step),
                         !.estado_sistema = "ESD: Reduciendo Presion"]
          ELSE [s EXCEPT !.do_relief = FALSE, !.relief_activo = "No",
                         !.MV_pct = 0,
                         !.estado_sistema = "ESD: Aumentando Presion"]
     ELSE [s EXCEPT !.do_relief = FALSE, !.relief_activo = "No",
                    !.MV_pct = 50]

\* variant: above nominal the purge output stays off
ESDTemperatureControl_NoPurge(s, step) ==
  LET current_T == s.T_sim
  IN IF abs(current_T - T_INITIAL) > ESD_T_TOLERANCE
     THEN IF current_T > T_INITIAL
          THEN [s EXCEPT !.do_purga_a = FALSE, !.purga_activa = "No",
                         !.SH_cmd = 50,
                         !.T_sim = @ - Decay(current_T - T_INITIAL, step),
                         !.estado_sistema = "ESD: Reduciendo Temperatura"]
          ELSE [s EXCEPT !.do_purga_a = FALSE, !.purga_activa = "No",
                         !.SH_cmd = 100,
                         !.estado_sistema = "ESD: Aumentando Temperatura"]
     ELSE [s EXCEPT !.do_purga_a = FALSE, !.purga_activa = "No",
                    !.SH_cmd = 50]

ESDTemperatureControl(s, step) ==
  LET current_T == s.T_sim
  IN IF abs(current_T - T_INITIAL) > ESD_T_TOLERANCE
     THEN IF current_T > T_INITIAL
          THEN [s EXCEPT !.do_purga_a = TRUE, !.purga_activa = "Si",
                         !.SH_cmd = 50,
                         !.T_sim = @ - Decay(current_T - T_INITIAL, step),
                         !.estado_sistema = "ESD: Reduciendo Temperatura"]
          ELSE [s EXCEPT !.do_purga_a = FALSE, !.purga_activa = "No",
                         !.SH_cmd = 100,
                         !.estado_sistema = "ESD: Aumentando Temperatura"]
     ELSE [s EXCEPT !.do_purga_a = FALSE, !.purga_activa = "No",
                    !.SH_cmd = 50]

\* variant: one value within tolerance is enough
Converged_Either(p, t) ==
  abs(p - P_INITIAL) <= ESD_P_TOLERANCE \/ abs(t - T_INITIAL) <= ESD_T_TOLERANCE

\* abs(P_sim_kPa - P_INITIAL) <= ESD_P_TOLERANCE and
\* abs(T_sim - T_INITIAL) <= ESD_T_TOLERANCE
Converged(p, t) ==
  abs(p - P_INITIAL) <= ESD_P_TOLERANCE /\ abs(t - T_INITIAL) <= ESD_T_TOLERANCE

ConvergenceCheck(s) ==
  LET s1 == [s EXCEPT !.conv = <<s.P_sim_kPa, s.T_sim>>]
  IN IF Converged(s.P_sim_kPa, s.T_sim)
     THEN [s1 EXCEPT !.esd_ready_to_reset = TRUE,
                     !.estado_sistema = "ESD: Listo para el Reinicio"]
     ELSE s1

ESDResponse(s, step) ==
  LET p == IF s.MV_pct < 50 THEN s.P_sim_kPa + Response(s.MV_pct, step)
           ELSE IF s.MV_pct > 50 /\ ~s.do_relief
                THEN s.P_sim_kPa - (0 - Response(s.MV_pct, step))
                ELSE s.P_sim_kPa
      t == IF s.SH_cmd > 50 /\ ~s.do_purga_a
           THEN s.T_sim + (0 - Response(s.SH_cmd, step))
           ELSE IF s.SH_cmd < 50
                THEN s.T_sim - Response(s.SH_cmd, step)
                ELSE s.T_sim
  IN [s EXCEPT !.P_sim_kPa = max(p, 0), !.T_sim = max(t, 0)]

ESDMode(s, step) ==
  LET s1 == [s EXCEPT !.estado_sistema = "No Listo para el Reinicio",
                      !.relief_activo = "No", !.purga_activa = "No",
                      !.writers = @ \cup {"esd"},
                      !.ran = @ \cup {"esd"}]
      s2 == ESDTemperatureControl(ESDPressureControl(s1, step), step)
      s3 == ESDResponse(ConvergenceCheck(s2), step)
  IN [s3 EXCEPT !.do_flow = FALSE,
                !.do_laser = s3.do_relief \/ s3.do_purga_a]

(* ------------- stage: status colour (lines 151-193, 408) --------------- *)
CriticalLabels == {"Emergencia Temperatura"}
OverrideLabels == {"Recuperacion Presion", "Precalentamiento"}
WarningLabels == {"Advertencia Presion Alta", "Advertencia Presion Baja",
                  "Advertencia Temperatura Alta",
                  "Advertencia Temperatura Baja"}

determine_system_color(estado, p, t, esd, ready, now) ==
  IF esd
  THEN IF ready THEN RGB_GREEN
       ELSE IF (now \div 50) % 2 = 0 THEN RGB_RED ELSE RGB_OFF
  ELSE IF estado \in CriticalLabels THEN RGB_RED
  ELSE IF estado \in OverrideLabels THEN RGB_CYAN
  ELSE IF estado \in WarningLabels THEN RGB_ORANGE
  ELSE IF p >= P_EMERG_HIGH THEN RGB_RED
  ELSE IF t >= T_EMERG_HIGH THEN RGB_RED
  ELSE IF p >= P_WARN_HIGH \/ p <= P_WARN_LOW THEN RGB_ORANGE
  ELSE IF t >= T_WARN_HIGH \/ t <= T_WARN_LOW THEN RGB_ORANGE
  ELSE RGB_GREEN

StatusColour(s, now) ==
  [s EXCEPT !.rgb_color =
     determine_system_color(s.estado_sistema, s.P_sim_kPa, s.T_sim,
                            s.esd_active, s.esd_ready_to_reset, now)]

(* ---------------- stage: telemetry (lines 412-424) --------------------- *)
\* variant: a record in every iteration
LogDue_Always(now, since) == now - since > 0

\* now - last_log > 0.1
LogDue(now, since) == now - since > LOG_INTERVAL_CS

Encode(s) ==
  [ emitted |-> TRUE,
    P |-> Fmt1(s.P_sim_kPa), T |-> Fmt1(s.T_sim),
    MV |-> s.MV_pct * 10, SH |-> s.SH_cmd * 10,
    F |-> s.flow_state, M |-> MODE_NAMES[s.mode + 1],
    ESD |-> IF s.esd_active THEN "Activado" ELSE "Desactivado",
    ESTADO |-> s.estado_sistema,
    RELIEF |-> s.relief_activo, PURGE |-> s.purga_activa ]

Telemetry(s, now) ==
  IF LogDue(now, s.last_log)
  THEN [s EXCEPT !.output_data = Encode(s), !.last_log = now]
  ELSE s

(* --------------------------- the loop ---------------------------------- *)
\* variant: the normal-operation branch is entered whatever the ESD flag
LoopBody_NoGuard(s, pos, esd_btn_state, sw_state, now, step) ==
  LET s1 == ESDButton(s, esd_btn_state)
      s2 == NormalOperation(s1, pos, sw_state, now, step)
      s3 == IF s2.esd_active THEN ESDMode(s2, step) ELSE s2
  IN Telemetry(StatusColour(s3, now), now)

LoopBody(s, pos, esd_btn_state, sw_state, now, step) ==
  LET s1 == ESDButton(s, esd_btn_state)
      s2 == IF ~s1.esd_active
            THEN NormalOperation(s1, pos, sw_state, now, step)
            ELSE s1
      s3 == IF s2.esd_active THEN ESDMode(s2, step) ELSE s2
  IN Telemetry(StatusColour(s3, now), now)

Commit(s) ==
  /\ P_sim_kPa' = s.P_sim_kPa
  /\ T_sim' = s.T_sim
  /\ MV_pct' = s.MV_pct
  /\ SH_cmd' = s.SH_cmd
  /\ mode' = s.mode
  /\ pressure_recovery_active' = s.pressure_recovery_active
  /\ preheat_active' = s.preheat_active
  /\ last_enc_sw_state' = s.last_enc_sw_state
  /\ last_enc_sw_time' = s.last_enc_sw_time
  /\ esd_active' = s.esd_active
  /\ esd_btn_state_last' = s.esd_btn_state_last
  /\ esd_ready_to_reset' = s.esd_ready_to_reset
  /\ last_log' = s.last_log
  /\ last_enc_pos' = s.last_enc_pos
  /\ delta_pos' = s.delta_pos
  /\ estado_sistema' = s.estado_sistema
  /\ relief_activo' = s.relief_activo
  /\ purga_activa' = s.purga_activa
  /\ flow_state' = s.flow_state
  /\ do_flow' = s.do_flow
  /\ do_laser' = s.do_laser
  /\ do_relief' = s.do_relief
  /\ do_purga_a' = s.do_purga_a
  /\ rgb_color' = s.rgb_color
  /\ output_data' = s.output_data
  /\ slept' = s.slept
  /\ conv' = s.conv
  /\ writers' = s.writers
  /\ ran' = s.ran
  /\ UNCHANGED simvars

\* variant: a standby of one second
InStandby_Short(now) == now < 100

\* now < standby_start_time + standby_duration
InStandby(now) == now < STANDBY_END_CS

\* an iteration that ends at the standby "continue" (lines 198-204); it
\* needs a time sample below 3 s, so it is enabled only with steps shorter
\* than those of Steps
StandbyTick(step, move) ==
  LET now == last_update_time + step
      pos == encoder_position + move
  IN /\ now <= MaxTime
     /\ step >= slept
     /\ pos \in (0 - MaxEnc)..MaxEnc
     /\ InStandby(now)
     /\ last_update_time' = now
     /\ encoder_position' = pos
     /\ slept' = SLEEP_STANDBY_CS
     /\ phase' = "standby"
     /\ start' = Snapshot
     /\ conv' = <<>>
     /\ writers' = {}
     /\ ran' = {}
     /\ UNCHANGED << P_sim_kPa, T_sim, MV_pct, SH_cmd, mode,
                     pressure_recovery_active, preheat_active,
                     last_enc_sw_state, last_enc_sw_time,
                     esd_active, esd_btn_state_last, esd_ready_to_reset,
                     last_log, last_enc_pos, delta_pos,
                     estado_sistema, relief_activo, purga_activa, flow_state,
                     do_flow, do_laser, do_relief, do_purga_a, rgb_color,
                     output_data, simvars >>

\* a full iteration (lines 198-426)
Iteration(step, move, esd_btn_state, sw_state) ==
  LET now == last_update_time + step
      pos == encoder_position + move
  IN /\ step >= slept
     /\ pos \in (0 - MaxEnc)..MaxEnc
     /\ ~InStandby(now)
     /\ last_update_time' = now
     /\ encoder_position' = pos
     /\ phase' = "tick"
     /\ start' = Snapshot
     /\ Commit(LoopBody(State, pos, esd_btn_state, sw_state, now, step))

\* a full iteration within the horizon
ControlTick(step, move, esd_btn_state, sw_state) ==
  LET now == last_update_time + step
      pos == encoder_position + move
  IN /\ now <= MaxTime
     /\ step >= slept
     /\ pos \in (0 - MaxEnc)..MaxEnc
     /\ ~InStandby(now)
     /\ last_update_time' = now
     /\ encoder_position' = pos
     /\ phase' = "tick"
     /\ start' = Snapshot
     /\ Commit(LoopBody(State, pos, esd_btn_state, sw_state, now, step))

\* the loop watched at the coarse rate: the first sample is already past
\* the standby window
Next ==
  \E step \in Steps, move \in EncMoves, b \in BOOLEAN, sw \in BOOLEAN :
     ControlTick(step, move, b, sw)

Spec == Init /\ [][Next]_vars

\* the loop never stops iterating: "while True" with bounded sleeps
NextLive ==
  \E move \in EncMoves, esd_btn_state \in BOOLEAN, sw_state \in BOOLEAN :
    /\ last_update_time + LongStep <= LiveMaxTime
    /\ ControlTick(LongStep, move, esd_btn_state, sw_state)

\* the time sample of the next iteration; every step of NextLive is one
NextSample ==
  /\ last_update_time + LongStep <= LiveMaxTime
  /\ last_update_time' = last_update_time + LongStep

SpecLive == Init /\ [][NextLive]_vars /\ WF_last_update_time(NextSample)

\* the loop with the ESD button left alone (it reads high, not pressed):
\* the run is driven by the encoder and the mode button only
NextNoButton ==
  \E move \in EncMoves, sw_state \in BOOLEAN :
     ControlTick(LongStep, move, TRUE, sw_state)

SpecNoButton == Init /\ [][NextNoButton]_vars

\* the loop stalled for minutes between two iterations, so that one
\* response step is larger than the value it acts on
NextStall ==
  \E move \in EncMoves, esd_btn_state \in BOOLEAN, sw_state \in BOOLEAN :
    /\ last_update_time + StallStep <= StallMaxTime
    /\ Iteration(StallStep, move, esd_btn_state, sw_state)

SpecStall == Init /\ [][NextStall]_vars

\* the same loop with the encoder turned a few counts per iteration
NextManual ==
  \E move \in SmallMoves, esd_btn_state \in BOOLEAN, sw_state \in BOOLEAN :
    /\ last_update_time + LongStep <= ManualMaxTime
    /\ ControlTick(LongStep, move, esd_btn_state, sw_state)

SpecManual == Init /\ [][NextManual]_vars

\* the loop from power-up at its own rate, the encoder at rest: standby
\* iterations, then full iterations a few hundredths of a second apart
NextFine ==
  \/ \E step \in FineSteps :
        /\ last_update_time + step <= FineMaxTime
        /\ StandbyTick(step, 0)
  \/ \E step \in FineSteps,
         esd_btn_state \in BOOLEAN, sw_state \in BOOLEAN :
        /\ last_update_time + step <= FineMaxTime
        /\ ControlTick(step, 0, esd_btn_state, sw_state)

SpecFine == Init /\ [][NextFine]_vars

(* ------------- the second revision of the firmware --------------------- *)
\* code-v2.py keeps the control logic of code-v1.py and differs in the
\* mode-change blink, in the status labels and in how the colour is chosen;
\* the stages below are the ones that differ, the others are shared
V2_ROJO == <<200, 0, 0>>
V2_CIAN == <<0, 255, 255>>
V2_AMBAR == <<200, 140, 0>>
V2_VERDE == <<0, 160, 0>>
V2_APAGADO == <<0, 0, 0>>

\* range(2) blinks of 0.08 + 0.06 s and the pause of 0.15 s
SLEEP_TOGGLE_V2_CS == 43

CambioDeModo(s, estado_boton, tiempo_actual) ==
  IF estado_boton # s.last_enc_sw_state
  THEN [s EXCEPT !.last_enc_sw_time = tiempo_actual,
                 !.last_enc_sw_state = estado_boton]
  ELSE IF (~estado_boton) /\ DebounceElapsed(tiempo_actual, s.last_enc_sw_time)
       THEN [s EXCEPT !.mode = 1 - s.mode,
                      !.slept = @ + SLEEP_TOGGLE_V2_CS,
                      !.last_enc_sw_time = tiempo_actual]
       ELSE s

SenalizacionLuminosa(s) ==
  IF s.do_relief \/ s.do_purga_a
  THEN [s EXCEPT !.rgb_color = V2_ROJO]
  ELSE IF s.pressure_recovery_active \/ s.preheat_active
  THEN [s EXCEPT !.rgb_color = V2_CIAN]
  ELSE IF s.mode = 0
  THEN IF s.P_sim_kPa >= P_WARN_HIGH \/ s.P_sim_kPa <= P_WARN_LOW
       THEN [s EXCEPT !.rgb_color = V2_AMBAR,
                      !.estado_sistema = "Advertencia Presion"]
       ELSE [s EXCEPT !.rgb_color = V2_VERDE, !.estado_sistema = "Normal"]
  ELSE IF s.T_sim >= T_EMERG_HIGH \/ s.T_sim <= T_WARN_LOW
       THEN [s EXCEPT !.rgb_color = V2_ROJO,
                      !.estado_sistema = "Correccion Temperatura"]
       ELSE IF s.T_sim >= T_WARN_HIGH
            THEN [s EXCEPT !.rgb_color = V2_AMBAR,
                           !.estado_sistema = "Advertencia Temperatura"]
            ELSE [s EXCEPT !.rgb_color = V2_VERDE,
                           !.estado_sistema = "Normal"]

OperacionNormal(s, pos, estado_boton, tiempo_actual, step) ==
  LET s1 == [s EXCEPT !.delta_pos = pos - s.last_enc_pos,
                      !.last_enc_pos = pos,
                      !.estado_sistema = "Normal",
                      !.ran = @ \cup {"encoder"}]
      s2 == AutoTrip(s1)
  IN IF s2.esd_active THEN s2
     ELSE FlowClassify(
            SenalizacionLuminosa(
              SafetyValvesOff(
                CambioDeModo(
                  ProcessResponse(
                    OverrideForcing(ManualAdjust(OverrideLatches(s2))),
                    step),
                  estado_boton, tiempo_actual))),
            tiempo_actual)

ControlPresionESD(s, step) ==
  LET presion_actual == s.P_sim_kPa
  IN IF abs(presion_actual - P_INITIAL) > ESD_P_TOLERANCE
     THEN IF presion_actual > P_INITIAL
          THEN [s EXCEPT !.do_relief = TRUE, !.relief_activo = "Si",
                         !.MV_pct = 50,
                         !.P_sim_kPa =
                            @ - Decay(presion_actual - P_INITIAL, step)]
          ELSE [s EXCEPT !.do_relief = FALSE, !.relief_activo = "No",
                         !.MV_pct = 0]
     ELSE [s EXCEPT !.do_relief = FALSE, !.relief_activo = "No",
                    !.MV_pct = 50]

ControlTemperaturaESD(s, step) ==
  LET temperatura_actual == s.T_sim
  IN IF abs(temperatura_actual - T_INITIAL) > ESD_T_TOLERANCE
     THEN IF temperatura_actual > T_INITIAL
          THEN [s EXCEPT !.do_purga_a = TRUE, !.purga_activa = "Si",
                         !.SH_cmd = 50,
                         !.T_sim =
                            @ - Decay(temperatura_actual - T_INITIAL, step)]
          ELSE [s EXCEPT !.do_purga_a = FALSE, !.purga_activa = "No",
                         !.SH_cmd = 100]
     ELSE [s EXCEPT !.do_purga_a = FALSE, !.purga_activa = "No",
                    !.SH_cmd = 50]

VerificacionReinicio(s) ==
  LET s1 == [s EXCEPT !.conv = <<s.P_sim_kPa, s.T_sim>>]
  IN IF Converged(s.P_sim_kPa, s.T_sim)
     THEN [s1 EXCEPT !.esd_ready_to_reset = TRUE,
                     !.estado_sistema = "Listo para el Reinicio"]
     ELSE s1

SenalizacionESD(s, tiempo_actual) ==
  IF s.esd_ready_to_reset
  THEN [s EXCEPT !.rgb_color = V2_VERDE]
  ELSE IF (tiempo_actual \div 50) % 2 = 0
       THEN [s EXCEPT !.rgb_color = V2_ROJO]
       ELSE [s EXCEPT !.rgb_color = V2_APAGADO]

ModoESD(s, step, tiempo_actual) ==
  LET s1 == [s EXCEPT !.estado_sistema = "No Listo para el Reinicio",
                      !.relief_activo = "No", !.purga_activa = "No",
                      !.writers = @ \cup {"esd"},
                      !.ran = @ \cup {"esd"}]
      s2 == ControlTemperaturaESD(ControlPresionESD(s1, step), step)
      s3 == SenalizacionESD(ESDResponse(VerificacionReinicio(s2), step),
                            tiempo_actual)
  IN [s3 EXCEPT !.do_flow = FALSE,
                !.do_laser = s3.do_relief \/ s3.do_purga_a]

BuclePrincipal(s, pos, estado_boton_esd, estado_boton, tiempo_actual, step) ==
  LET s1 == ESDButton(s, estado_boton_esd)
      s2 == IF ~s1.esd_active
            THEN OperacionNormal(s1, pos, estado_boton, tiempo_actual, step)
            ELSE s1
      s3 == IF s2.esd_active THEN ModoESD(s2, step, tiempo_actual) ELSE s2
  IN Telemetry(s3, tiempo_actual)

\* a full iteration of code-v2.py
ControlTickV2(step, move, estado_boton_esd, estado_boton) ==
  LET now == last_update_time + step
      pos == encoder_position + move
  IN /\ now <= MaxTime
     /\ step >= slept
     /\ pos \in (0 - MaxEnc)..MaxEnc
     /\ ~InStandby(now)
     /\ last_update_time' = now
     /\ encoder_position' = pos
     /\ phase' = "tick"
     /\ start' = Snapshot
     /\ Commit(BuclePrincipal(State, pos, estado_boton_esd, estado_boton,
                              now, step))

NextV2 ==
  \E step \in Steps, move \in EncMoves, b \in BOOLEAN, sw \in BOOLEAN :
     ControlTickV2(step, move, b, sw)

SpecV2 == Init /\ [][NextV2]_vars

(* --------- the simulated serial port: generator and readline ----------- *)
\* while self.running (line 48)
GenLoop ==
  /\ gen_pc = "loop"
  /\ gen_pc' = IF running THEN "append" ELSE "done"
  /\ UNCHANGED << data_queue, running, rd_pc, produced, last_read,
                  in_order, raised >>
  /\ UNCHANGED vars

\* build the next record and self.data_queue.append(data_string) (49-57)
GenAppend ==
  /\ gen_pc = "append"
  /\ produced < MaxRecords
  /\ produced' = produced + 1
  /\ data_queue' = Append(data_queue, produced + 1)
  /\ gen_pc' = "test"
  /\ UNCHANGED << running, rd_pc, last_read, in_order, raised >>
  /\ UNCHANGED vars

\* if len(self.data_queue) > 100 (line 60)
GenTest ==
  /\ gen_pc = "test"
  /\ gen_pc' = IF Len(data_queue) > QUEUE_LIMIT THEN "pop" ELSE "sleep"
  /\ UNCHANGED << data_queue, running, rd_pc, produced, last_read,
                  in_order, raised >>
  /\ UNCHANGED vars

\* self.data_queue.pop(0) (line 61); on an empty list pop raises IndexError
\* and the thread ends
GenPop ==
  /\ gen_pc = "pop"
  /\ IF data_queue = <<>>
     THEN /\ raised' = raised \cup {"generator"}
          /\ gen_pc' = "done"
          /\ UNCHANGED data_queue
     ELSE /\ data_queue' = Tail(data_queue)
          /\ gen_pc' = "sleep"
          /\ UNCHANGED raised
  /\ UNCHANGED << running, rd_pc, produced, last_read, in_order >>
  /\ UNCHANGED vars

\* time.sleep(0.1) (line 63), the end of one generator step
GenSleep ==
  /\ gen_pc = "sleep"
  /\ gen_pc' = "loop"
  /\ UNCHANGED << data_queue, running, rd_pc, produced, last_read,
                  in_order, raised >>
  /\ UNCHANGED vars

\* a call of readline()
ReadlineCall ==
  /\ rd_pc = "idle"
  /\ rd_pc' = "wait"
  /\ UNCHANGED << data_queue, running, gen_pc, produced, last_read,
                  in_order, raised >>
  /\ UNCHANGED vars

\* while self.running and len(self.data_queue) == 0: sleep (182-183);
\* the step is the exit of the loop
ReadlineWait ==
  /\ rd_pc = "wait"
  /\ ~(running /\ Len(data_queue) = 0)
  /\ rd_pc' = "test"
  /\ UNCHANGED << data_queue, running, gen_pc, produced, last_read,
                  in_order, raised >>
  /\ UNCHANGED vars

\* if len(self.data_queue) > 0 (line 185); otherwise return b"" (188)
ReadlineTest ==
  /\ rd_pc = "test"
  /\ rd_pc' = IF Len(data_queue) > 0 THEN "pop" ELSE "idle"
  /\ UNCHANGED << data_queue, running, gen_pc, produced, last_read,
                  in_order, raised >>
  /\ UNCHANGED vars

\* data = self.data_queue.pop(0); return it (186-187)
ReadlinePop ==
  /\ rd_pc = "pop"
  /\ IF data_queue = <<>>
     THEN /\ raised' = raised \cup {"readline"}
          /\ rd_pc' = "done"
          /\ UNCHANGED << data_queue, last_read, in_order >>
     ELSE /\ data_queue' = Tail(data_queue)
          /\ last_read' = Head(data_queue)
          /\ in_order' = (in_order /\ Head(data_queue) > last_read)
          /\ rd_pc' = "idle"
          /\ UNCHANGED raised
  /\ UNCHANGED << running, gen_pc, produced >>
  /\ UNCHANGED vars

\* close(): self.running = False (192-193), then join the thread (194-195)
Close ==
  /\ rd_pc = "idle"
  /\ running
  /\ running' = FALSE
  /\ rd_pc' = "join"
  /\ UNCHANGED << data_queue, gen_pc, produced, last_read, in_order,
                  raised >>
  /\ UNCHANGED vars

\* self.data_thread.join() returns when the generator thread has ended
Joined ==
  /\ rd_pc = "join"
  /\ gen_pc = "done"
  /\ rd_pc' = "idle"
  /\ UNCHANGED << data_queue, running, gen_pc, produced, last_read,
                  in_order, raised >>
  /\ UNCHANGED vars

\* the two threads of the simulated port, interleaved statement by
\* statement; the firmware does not run in this process
NextSim ==
  \/ GenLoop \/ GenAppend \/ GenTest \/ GenPop \/ GenSleep
  \/ ReadlineCall \/ ReadlineWait \/ ReadlineTest \/ ReadlinePop
  \/ Close \/ Joined

\* the port just constructed, beside a firmware at rest with both buttons
\* released
InitSim == Init /\ last_enc_sw_state /\ esd_btn_state_last

SpecSim == InitSim /\ [][NextSim]_simvars

(* --------------------------- type invariant ---------------------------- *)
TypeOK ==
  /\ P_sim_kPa \in Nat /\ T_sim \in Nat
  /\ MV_pct \in Int /\ SH_cmd \in Int
  /\ mode \in {0, 1}
  /\ phase \in {"init", "standby", "tick"}
  /\ writers \subseteq {"manual", "forcing", "esd"}
  /\ ran \subseteq {"encoder", "latches", "flow", "esd"}

(* ------------------ vocabulary of the properties ----------------------- *)
Running == "Running"
Active == "Active"
ReadyForReset == "ReadyForReset"

ESDStateOf(active, ready) ==
  IF ~active THEN Running ELSE IF ready THEN ReadyForReset ELSE Active

\* ESD state at the end of the last iteration, and when it began
ESDState == ESDStateOf(esd_active, esd_ready_to_reset)
ESDStateBefore == ESDStateOf(start.esd_active, start.ready)

\* the last iteration was a full one (not the initial state, not standby)
Ticked == phase = "tick"

\* the last iteration saw the ESD button go from high to low
SawEdge == Ticked /\ start.btn /\ ~esd_btn_state_last

\* the last iteration found ESD Running after the button handling
FoundRunning == Ticked /\ ~start.esd_active /\ ~SawEdge

\* the last iteration ran the normal-operation logic to its end
RanNormal == Ticked /\ ~esd_active

\* the last iteration ran the ESD branch
RanESD == Ticked /\ esd_active

\* the last iteration took ESD from active back to Running
WasReset == Ticked /\ start.esd_active /\ ~esd_active

(* ------------------------------ claims --------------------------------- *)

\* C1: a tick that finds ESD Running (after the button handling) with
\* pressure >= 460 or temperature >= 190 ends with ESD Active, and neither
\* the manual adjustment nor the override forcing wrote a channel in it.
C1_AutoTrip ==
  (FoundRunning /\ (start.P >= 460 * Scale \/ start.T >= 190 * Scale))
    => /\ ESDState = Active
       /\ writers \cap {"manual", "forcing"} = {}

\* an automatic trip taken with the recovery latch set and a nonzero
\* encoder delta read in the same tick
C1_Witness ==
  /\ FoundRunning /\ start.T >= 190 * Scale
  /\ start.rec /\ delta_pos # 0
  /\ ESDState = Active

\* C2: whenever a tick takes ESD from active back to Running, the pressure
\* and temperature it found are within 300 +/- 5 and 150 +/- 3.
C2_ResetGated ==
  WasReset => /\ abs(start.P - 300 * Scale) <= 5 * Scale
              /\ abs(start.T - 150 * Scale) <= 3 * Scale

\* a reset has happened
C2_Witness == WasReset /\ SawEdge /\ start.ready

\* C3: an ESD tick whose convergence test is reached with the state Active
\* sets ReadyForReset exactly when the values the test reads are both within
\* tolerance; with only one of them within tolerance the state stays Active.
C3_Convergence ==
  (RanESD /\ ~(start.esd_active /\ start.ready))
    => (esd_ready_to_reset
          <=> (/\ abs(conv[1] - 300 * Scale) <= 5 * Scale
               /\ abs(conv[2] - 150 * Scale) <= 3 * Scale))

\* a tick that began Active and ended ReadyForReset
C3_Witness ==
  Ticked /\ ESDStateBefore = Active /\ ESDState = ReadyForReset

\* a tick that stays Active with the pressure within tolerance and the
\* temperature outside it
C3_PartialWitness ==
  /\ RanESD /\ ESDState = Active
  /\ abs(conv[1] - 300 * Scale) <= 5 * Scale
  /\ abs(conv[2] - 150 * Scale) > 3 * Scale

\* C4: between the end of one tick and the end of the next the ESD state
\* either stays or moves Running -> Active, Active -> ReadyForReset or
\* ReadyForReset -> Running.
C4_NoSkip ==
  Ticked => \/ ESDState = ESDStateBefore
            \/ <<ESDStateBefore, ESDState>> \in
                 { <<Running, Active>>, <<Active, ReadyForReset>>,
                   <<ReadyForReset, Running>> }

\* C5: a tick that begins in ReadyForReset and sees no falling edge of the
\* ESD button ends in ReadyForReset, and one that ends Running saw the edge.
C5_ResetOnlyOnEdge ==
  (Ticked /\ ESDStateBefore = ReadyForReset)
    => /\ (~SawEdge => ESDState = ReadyForReset)
       /\ (ESDState = Running => SawEdge)

\* a tick that stayed in ReadyForReset while the button was held low
C5_Witness ==
  /\ Ticked /\ ESDStateBefore = ReadyForReset /\ ESDState = ReadyForReset
  /\ ~start.btn /\ ~esd_btn_state_last

\* C6: while ESD is Active or ReadyForReset neither override latch is set.
C6_Exclusive ==
  esd_active => (~pressure_recovery_active /\ ~preheat_active)

\* C7: at the end of the tick that takes ESD from ReadyForReset to Running
\* both override latches are clear.
C7_ResetClearsLatches ==
  WasReset => (~pressure_recovery_active /\ ~preheat_active)

\* a reset tick that began with an override latch still set
C7_Witness ==
  WasReset /\ (start.rec \/ start.pre)
           /\ ~pressure_recovery_active /\ ~preheat_active

\* C8: after any tick both channels are within [0, 100].
C8_ChannelBounds ==
  /\ 0 <= MV_pct /\ MV_pct <= 100
  /\ 0 <= SH_cmd /\ SH_cmd <= 100

\* a manual adjustment whose sum left the range and was clamped
C8_Witness ==
  /\ RanNormal /\ "manual" \in writers /\ start.mode = 0
  /\ start.MV + 2 * delta_pos > 100
  /\ MV_pct = 100

\* C9: in a tick that ends Running, the recovery latch is cleared only with
\* pressure > 240 and set only with pressure <= 220, so a pressure in
\* (220, 240] leaves it as it was; the same for preheat with 130 and 110.
C9_Hysteresis ==
  RanNormal =>
    /\ (start.rec /\ ~pressure_recovery_active) => start.P > 240 * Scale
    /\ (~start.rec /\ pressure_recovery_active) => start.P <= 220 * Scale
    /\ (start.P > 220 * Scale /\ start.P <= 240 * Scale)
         => pressure_recovery_active = start.rec
    /\ (start.pre /\ ~preheat_active) => start.T > 130 * Scale
    /\ (~start.pre /\ preheat_active) => start.T <= 110 * Scale
    /\ (start.T > 110 * Scale /\ start.T <= 130 * Scale)
         => preheat_active = start.pre

\* the recovery latch kept through a tick whose pressure is back above the
\* entry threshold but not above the exit bound
C9_Witness ==
  /\ RanNormal /\ start.rec /\ pressure_recovery_active
  /\ start.P > 220 * Scale /\ start.P <= 240 * Scale

\* C10: at the end of a Running tick an active recovery latch means
\* MV_pct = 0 and an active preheat latch means SH_cmd = 100.
C10_Forcing ==
  RanNormal => /\ pressure_recovery_active => MV_pct = 0
               /\ preheat_active => SH_cmd = 100

\* both channels forced in a tick that read a nonzero encoder delta
C10_Witness ==
  /\ RanNormal /\ delta_pos # 0
  /\ pressure_recovery_active /\ MV_pct = 0
  /\ preheat_active /\ SH_cmd = 100

(* C11: a falling edge of the ESD button seen by a tick that begins in
   Active is ignored: the tick ends with the shutdown still active, and the
   ready flag is exactly what the tick's convergence test gives, so a tick
   whose process has not converged ends in Active and never in Running. *)
C11_EdgeIgnored ==
  (Ticked /\ ESDStateBefore = Active /\ SawEdge)
    => /\ esd_active
       /\ esd_ready_to_reset = Converged(conv[1], conv[2])
       /\ (~Converged(conv[1], conv[2]) => ESDState = Active)

C11_Witness ==
  Ticked /\ ESDStateBefore = Active /\ SawEdge /\ ESDState = Active

(* C12: a falling edge of the ESD button seen by a tick that begins in
   Running trips the shutdown in that tick at any pressure and temperature,
   and the tick runs the shutdown branch only: it reads no encoder delta,
   evaluates no override latch, applies no manual adjustment or override
   forcing and classifies no flow. *)
C12_ManualTrip ==
  (Ticked /\ ~start.esd_active /\ SawEdge)
    => /\ esd_active
       /\ ran = {"esd"}
       /\ writers = {"esd"}
       /\ pressure_recovery_active = start.rec
       /\ preheat_active = start.pre

C12_Witness ==
  /\ Ticked /\ ~start.esd_active /\ SawEdge /\ esd_active
  /\ ~TripCondition(start.P, start.T)
  /\ start.P # P_INITIAL

(* C13: encoder movement made while the shutdown is active is discarded.
   An iteration that ends with the shutdown active leaves the channels to
   the ESD law alone, and the iteration that resets to Running adjusts the
   selected channel by the movement of that iteration only, so that nothing
   turned during the shutdown reaches valve_percent or heater_percent. *)
C13_InputDiscarded ==
  [][ /\ esd_active' => writers' = {"esd"}
      /\ (esd_active /\ ~esd_active')
           => LET d == encoder_position' - encoder_position
              IN /\ MV_pct' = IF mode = 0
                              THEN Clamp(MV_MIN, MV_MAX,
                                         MV_pct + d * ENC_SENSITIVITY_P)
                              ELSE MV_pct
                 /\ SH_cmd' = IF mode = 1
                              THEN Clamp(SH_MIN, SH_MAX,
                                         SH_cmd + d * ENC_SENSITIVITY_T)
                              ELSE SH_cmd ]_vars

(* C14: each override suppresses manual input for its own channel only.
   In a Running tick with Preheat latched and Pressure-Recovery not latched,
   Pressure mode still moves the valve by 2.0 per encoder step (clamped);
   with Pressure-Recovery latched and Preheat not latched, Temperature mode
   still moves the heater by 1.0 per encoder step (clamped). *)
C14_IndependentSuppression ==
  /\ (RanNormal /\ preheat_active /\ ~pressure_recovery_active
             /\ start.mode = 0)
       => MV_pct = Clamp(MV_MIN, MV_MAX, start.MV + 2 * delta_pos)
  /\ (RanNormal /\ pressure_recovery_active /\ ~preheat_active
             /\ start.mode = 1)
       => SH_cmd = Clamp(SH_MIN, SH_MAX, start.SH + 1 * delta_pos)

(* C15: in a Running tick with no override latched and encoder delta d,
   Pressure mode sets valve_percent to clamp(valve_percent + 2.0*d, 0, 100)
   and leaves heater_percent alone; Temperature mode sets heater_percent to
   clamp(heater_percent + 1.0*d, 0, 100) and leaves valve_percent alone. *)
C15_ManualAdjustment ==
  (RanNormal /\ ~pressure_recovery_active /\ ~preheat_active)
    => IF start.mode = 0
       THEN /\ MV_pct = max(0, min(100, start.MV + 2 * delta_pos))
            /\ SH_cmd = start.SH
       ELSE /\ SH_cmd = max(0, min(100, start.SH + 1 * delta_pos))
            /\ MV_pct = start.MV

C15_Witness ==
  /\ RanNormal /\ ~pressure_recovery_active /\ ~preheat_active
  /\ start.mode = 1 /\ delta_pos # 0
  /\ SH_cmd = start.SH + delta_pos
  /\ MV_pct \notin {0, 50, 100}

(* C16: one press of the mode button toggles Mode once.  While the button
   keeps reading pressed no further toggle happens: an iteration that
   follows an iteration which toggled, and in which no release has been
   observed, leaves Mode as it is. *)
C16_OncePerPress ==
  [][ (Ticked /\ mode # start.mode /\ ~last_enc_sw_state')
        => mode' = mode ]_vars

(* C17: Mode toggles in an iteration only if the mode button reads pressed
   in that iteration, read pressed in the previous sample too, and at least
   120 ms of sampled time have passed since last_enc_sw_time, which is never
   earlier than the last observed change of the button; so a press released
   within 120 ms toggles nothing. *)
C17_DebounceWindow ==
  [][ mode' # mode
        => /\ ~last_enc_sw_state
           /\ ~last_enc_sw_state'
           /\ (last_update_time' - last_enc_sw_time) * 10 >= 120 ]_vars

C17_Witness ==
  /\ RanNormal /\ mode # start.mode /\ ~last_enc_sw_state
  /\ last_enc_sw_time = last_update_time
  /\ last_update_time < STANDBY_END_CS + ToggleStep

\* the bands of the two regimes, in kPa and degrees C
InBandA == /\ 310 * Scale <= P_sim_kPa /\ P_sim_kPa <= 350 * Scale
           /\ 140 * Scale <= T_sim /\ T_sim <= 160 * Scale
InBandB == /\ 260 * Scale <= P_sim_kPa /\ P_sim_kPa <= 300 * Scale
           /\ 160 * Scale <= T_sim /\ T_sim <= 170 * Scale

(* C18: at the end of a Running tick with no override latched the flow
   regime is A exactly when pressure is in [310,350] and temperature in
   [140,160], B exactly when pressure is in [260,300] and temperature in
   [160,170], and None otherwise; it is a function of the current pressure
   and temperature alone, and the two bands are never both satisfied. *)
C18_FlowClassification ==
  (RanNormal /\ ~pressure_recovery_active /\ ~preheat_active)
    => /\ (flow_state = "A") = InBandA
       /\ (flow_state = "B") = InBandB
       /\ (flow_state = "None") = (~InBandA /\ ~InBandB)
       /\ ~(InBandA /\ InBandB)

C18_Witness ==
  /\ RanNormal /\ ~pressure_recovery_active /\ ~preheat_active
  /\ flow_state = "B" /\ T_sim = 170 * Scale

(* C19: at the end of every Running tick with Pressure-Recovery or Preheat
   latched the flow regime is None and the flow indicator is off, also when
   pressure and temperature lie inside the band of A or of B. *)
C19_OverrideNoFlow ==
  (RanNormal /\ (pressure_recovery_active \/ preheat_active))
    => flow_state = "None" /\ ~do_flow

C19_Witness ==
  /\ RanNormal /\ (pressure_recovery_active \/ preheat_active)
  /\ (InBandA \/ InBandB)
  /\ flow_state = "None" /\ ~do_flow

(* C20: while the shutdown is active the flow regime is None: every
   telemetry record written with ESD:Activado carries F:None, and the flow
   indicator is off at the end of every iteration that ends with the
   shutdown active, whatever the regime of the last Running tick was. *)
C20_ESDNoFlow ==
  /\ (output_data.emitted /\ output_data.ESD = "Activado")
       => output_data.F = "None"
  /\ (Ticked /\ esd_active) => ~do_flow

(* C21: ESD pressure law.  In every tick that runs the shutdown branch,
   with p the pressure at the start of the tick: p > 305 opens the relief
   valve and sets valve_percent to 50; p < 295 closes the relief valve and
   sets valve_percent to 0; |p - 300| <= 5 closes the relief valve and sets
   valve_percent to 50. *)
C21_ESDPressureLaw ==
  RanESD
    => /\ start.P > 305 * Scale => (do_relief /\ MV_pct = 50)
       /\ start.P < 295 * Scale => (~do_relief /\ MV_pct = 0)
       /\ (295 * Scale <= start.P /\ start.P <= 305 * Scale)
            => (~do_relief /\ MV_pct = 50)

C21_Witness ==
  RanESD /\ start.esd_active /\ start.P < 295 * Scale /\ MV_pct = 0

(* C22: ESD temperature law.  In every tick that runs the shutdown branch,
   with t the temperature at the start of the tick: t > 153 switches the
   purge output on and sets heater_percent to 50; t < 147 switches it off
   and sets heater_percent to 100; |t - 150| <= 3 switches it off and sets
   heater_percent to 50. *)
C22_ESDTemperatureLaw ==
  RanESD
    => /\ start.T > 153 * Scale => (do_purga_a /\ SH_cmd = 50)
       /\ start.T < 147 * Scale => (~do_purga_a /\ SH_cmd = 100)
       /\ (147 * Scale <= start.T /\ start.T <= 153 * Scale)
            => (~do_purga_a /\ SH_cmd = 50)

C22_Witness ==
  RanESD /\ start.esd_active /\ start.T > 153 * Scale /\ do_purga_a
         /\ SH_cmd = 50

\* the last iteration tripped the shutdown from Running at a pressure of
\* 460 or more and a temperature within 150 +/- 3
TrippedOnPressure ==
  /\ Ticked /\ ~start.esd_active /\ esd_active
  /\ start.P >= 460 * Scale
  /\ 147 * Scale <= start.T /\ start.T <= 153 * Scale

\* the last iteration wrote a telemetry record
Emitted == Ticked /\ output_data.emitted /\ last_log = last_update_time

(* C23: in the tick that trips the shutdown from Running with pressure at
   460 or more and temperature within 150 +/- 3, the relief valve is
   engaged and reported as RELIEF:Si, and the status label says that the
   pressure is being reduced. *)
C23_TripStatus ==
  TrippedOnPressure
    => /\ do_relief /\ relief_activo = "Si"
       /\ estado_sistema = "ESD: Reduciendo Presion"
       /\ Emitted => /\ output_data.RELIEF = "Si"
                      /\ output_data.ESTADO = "ESD: Reduciendo Presion"

(* C24: status priority in a Running tick.  The override ranks above the
   threshold warnings: whenever a latch is active at the end of a Running
   tick the label is the label of an active override and the colour is the
   override colour, also when pressure or temperature lies in a warning
   band. *)
C24_StatusPriority ==
  (RanNormal /\ (pressure_recovery_active \/ preheat_active))
    => /\ \/ pressure_recovery_active
             /\ estado_sistema = "Recuperacion Presion"
          \/ preheat_active /\ estado_sistema = "Precalentamiento"
       /\ rgb_color = <<0, 255, 255>>

(* C25: telemetry cadence.  An iteration writes at most one record, and it
   writes one only when more than 100 ms of sampled time have passed since
   the previous record, whatever the iteration rate. *)
C25_TelemetryCadence ==
  [][ (last_log' # last_log \/ output_data' # output_data)
        => /\ last_log' = last_update_time'
           /\ output_data'.emitted
           /\ (last_log' - last_log) * 10 > 100 ]_vars

C25_Witness ==
  Emitted /\ last_update_time >= STANDBY_END_CS + ToggleStep

(* C26: single writer per tick.  In every full iteration valve_percent and
   heater_percent are written by exactly one of manual adjustment, override
   forcing and the ESD control law: never by manual adjustment and forcing
   together, never by the normal-operation writes and the ESD law
   together. *)
C26_SingleWriter ==
  Ticked => writers \in {{"manual"}, {"forcing"}, {"esd"}}

C26_Witness ==
  Ticked /\ writers = {"forcing"} /\ delta_pos # 0

(* C27: the shutdown converges.  From every state with ESD Active, as long
   as the loop keeps iterating, ESD becomes ReadyForReset; no input is
   needed and none can prevent it. *)
C27_EventuallyReady ==
  (ESDState = Active /\ last_update_time <= LiveDeadline)
    ~> (ESDState = ReadyForReset)

C27_Witness ==
  /\ Ticked /\ ESDStateBefore = Active /\ ESDState = ReadyForReset
  /\ start.P > 305 * Scale
  /\ last_update_time > LiveDeadline

(* C28: both overrides can be latched at once: a Running state with
   pressure_recovery_active and preheat_active both true, valve_percent = 0
   and heater_percent = 100 is reachable from the initial state.  Stated
   as what every such state looks like, with the state itself as witness:
   whenever both latches are true at the end of a Running tick the valve is
   at 0 and the heater at 100. *)
C28_BothOverrides ==
  (RanNormal /\ pressure_recovery_active /\ preheat_active)
    => MV_pct = 0 /\ SH_cmd = 100

C28_Witness ==
  /\ RanNormal /\ pressure_recovery_active /\ preheat_active
  /\ MV_pct = 0 /\ SH_cmd = 100

(* C29: when the control loop starts, and until its first full iteration,
   pressure is 300, temperature 150, valve_percent and heater_percent 50,
   Mode is Pressure, ESD is Running and both override latches are
   inactive. *)
C29_InitialState ==
  phase # "tick"
    => /\ P_sim_kPa = 300 * Scale /\ T_sim = 150 * Scale
       /\ MV_pct = 50 /\ SH_cmd = 50
       /\ mode = 0
       /\ ESDState = Running
       /\ ~pressure_recovery_active /\ ~preheat_active

C29_Witness ==
  phase = "standby" /\ MV_pct = 50 /\ ESDState = Running

(* C30: the safety valves act only in the shutdown.  At the end of every
   Running tick the relief valve and the purge output are off and reported
   as RELIEF:No and PURGE:No; at the end of every tick, Running or ESD, the
   laser indicator is on exactly when the relief valve or the purge output
   is on. *)
C30_SafetyValves ==
  /\ RanNormal
       => /\ ~do_relief /\ ~do_purga_a
          /\ relief_activo = "No" /\ purga_activa = "No"
          /\ Emitted => /\ output_data.RELIEF = "No"
                         /\ output_data.PURGE = "No"
  /\ Ticked => (do_laser = (do_relief \/ do_purga_a))

C30_Witness ==
  WasReset /\ Emitted /\ ~do_relief /\ ~do_purga_a /\ ~do_laser
           /\ start.P > 300 * Scale

(* C31: pressure and temperature are never negative: after every tick, in
   Running or in the shutdown and whatever the time step, pressure >= 0 and
   temperature >= 0. *)
C31_NonNegative ==
  P_sim_kPa >= 0 /\ T_sim >= 0

C31_Witness ==
  RanNormal /\ P_sim_kPa = 0 /\ start.P > 0

(* C32: the ESD decay does not overshoot.  In a tick that runs the
   shutdown branch from a pressure p > 305 with a time step for which
   0 <= 0.2*dt <= 1 (a step of at most 10 s), the pressure after the tick
   is p - (p - 300)*dt*0.2, hence between 300 and p, and valve_percent is
   50 so that the valve response adds nothing.  The same for a temperature
   t > 153 with nominal 150 and heater_percent 50. *)
C32_NoOvershoot ==
  [][ LET step == last_update_time' - last_update_time
      IN (esd_active' /\ step <= 1000)
           => /\ P_sim_kPa > 305 * Scale
                   => /\ P_sim_kPa' = P_sim_kPa
                                - ((P_sim_kPa - 300 * Scale) * step) \div 1000
                      /\ 300 * Scale <= P_sim_kPa'
                      /\ P_sim_kPa' <= P_sim_kPa
                      /\ MV_pct' = 50
              /\ T_sim > 153 * Scale
                   => /\ T_sim' = T_sim
                                - ((T_sim - 150 * Scale) * step) \div 1000
                      /\ 150 * Scale <= T_sim'
                      /\ T_sim' <= T_sim
                      /\ SH_cmd' = 50 ]_vars

C32_Witness ==
  /\ RanESD /\ start.P > 305 * Scale /\ start.T > 153 * Scale
  /\ P_sim_kPa < start.P /\ T_sim < start.T
  /\ P_sim_kPa > 300 * Scale /\ T_sim > 150 * Scale

\* ---------------------------------------------------------------------------
\* C33: ReadyForReset is stable.  A tick that finds the shutdown ready for
\* reset and sees no falling edge of the ESD button leaves pressure and
\* temperature at their values, leaves both channels at 50 and leaves the
\* state ReadyForReset (it never returns to Active).
C33_ReadyStable ==
  (Ticked /\ ESDStateBefore = ReadyForReset /\ ~SawEdge)
    => /\ ESDState = ReadyForReset
       /\ P_sim_kPa = start.P /\ T_sim = start.T
       /\ MV_pct = 50 /\ SH_cmd = 50

\* a ready shutdown that rests off the nominal pressure, ticked without edge
C33_Witness ==
  /\ Ticked /\ ESDStateBefore = ReadyForReset /\ ~SawEdge
  /\ ESDState = ReadyForReset
  /\ start.P # P_INITIAL /\ P_sim_kPa = start.P

\* ---------------------------------------------------------------------------
\* C34: in ReadyForReset the safety valves are closed.  At the end of every
\* tick in which the shutdown is ReadyForReset, the relief valve and the
\* purge output are off and reported as "No", the tick that first detects
\* convergence included.
C34_ReadyValvesClosed ==
  (Ticked /\ ESDState = ReadyForReset)
    => /\ ~do_relief /\ ~do_purga_a
       /\ relief_activo = "No" /\ purga_activa = "No"
       /\ Emitted => /\ output_data.RELIEF = "No"
                      /\ output_data.PURGE = "No"

\* ---------------------------------------------------------------------------
\* C35: no over-limit state is reported as not tripped.  At the end of every
\* tick in which the shutdown is Running, the pressure is below 460 and the
\* temperature is below 190.
C35_RunningBelowLimits ==
  (Ticked /\ ESDState = Running)
    => P_sim_kPa < 460 * Scale /\ T_sim < 190 * Scale

\* C35, amended: a tick that ends Running began with the pressure below 460
\* and the temperature below 190, and ends with each of them less than one
\* response step (50 * dt * 0.1, that is 2.5 units per second of the
\* interval since the previous tick) above its limit.
C35_TripLatency ==
  [][ LET step == last_update_time' - last_update_time
      IN (phase' = "tick" /\ ~esd_active')
           => /\ P_sim_kPa < 460 * Scale /\ T_sim < 190 * Scale
              /\ P_sim_kPa' < 460 * Scale + 50 * step
              /\ T_sim' < 190 * Scale + 50 * step ]_vars

\* a Running tick that ends at or above the pressure limit and reports it
C35_Witness ==
  /\ RanNormal /\ start.P < 460 * Scale /\ P_sim_kPa >= 460 * Scale
  /\ Emitted /\ output_data.ESD = "Desactivado"
  /\ output_data.P >= 4600

\* ---------------------------------------------------------------------------
\* C36: one press causes at most one ESD transition.  In a tick that samples
\* the ESD button low when the previous sample was low too (the button is
\* held), the button takes no transition: an active shutdown stays active,
\* also when it is ready for reset, and a shutdown that becomes active in
\* that tick is an automatic trip.
C36_OneTransitionPerPress ==
  [][ (phase' = "tick" /\ ~esd_btn_state_last /\ ~esd_btn_state_last')
        => /\ esd_active => esd_active'
           /\ (~esd_active /\ esd_active')
                 => TripCondition(P_sim_kPa, T_sim) ]_vars

\* the button held low over a tick of a shutdown that is ready for reset,
\* with the process within tolerance
C36_Witness ==
  /\ Ticked /\ ~start.btn /\ ~esd_btn_state_last
  /\ start.esd_active /\ start.ready /\ esd_active
  /\ abs(P_sim_kPa - P_INITIAL) <= ESD_P_TOLERANCE
  /\ abs(T_sim - T_INITIAL) <= ESD_T_TOLERANCE

\* ---------------------------------------------------------------------------
\* C37: Mode is frozen during ESD.  A tick that ends with the shutdown Active
\* or ReadyForReset leaves Mode and the stored sample of the mode button as
\* they were, whatever the button reads; Mode changes only in a tick that
\* ends Running, to the other mode, with the button sampled pressed.
C37_ModeFrozenInESD ==
  [][ /\ (phase' = "tick" /\ esd_active')
            => /\ mode' = mode
               /\ last_enc_sw_state' = last_enc_sw_state
               /\ last_enc_sw_time' = last_enc_sw_time
      /\ mode' # mode
            => /\ phase' = "tick" /\ ~esd_active'
               /\ mode' = 1 - mode
               /\ ~last_enc_sw_state /\ ~last_enc_sw_state' ]_vars

\* a shutdown tick in temperature mode whose stored button sample is
\* "pressed" for longer than the debounce time: sampled in Running, the
\* button would toggle Mode
C37_Witness ==
  /\ RanESD /\ start.esd_active
  /\ mode = 1 /\ start.mode = 1
  /\ ~last_enc_sw_state
  /\ DebounceElapsed(last_update_time, last_enc_sw_time)

\* ---------------------------------------------------------------------------
\* C38: standby.  A tick whose time sample is below 3.0 s changes none of
\* pressure, temperature, valve_percent, heater_percent, Mode, the ESD state
\* and the override latches, leaves the stored sample of the ESD button as
\* it was, and emits no telemetry.
C38_StandbyInert ==
  [][ last_update_time' < 300
        => /\ P_sim_kPa' = P_sim_kPa /\ T_sim' = T_sim
           /\ MV_pct' = MV_pct /\ SH_cmd' = SH_cmd
           /\ mode' = mode
           /\ esd_active' = esd_active
           /\ esd_ready_to_reset' = esd_ready_to_reset
           /\ pressure_recovery_active' = pressure_recovery_active
           /\ preheat_active' = preheat_active
           /\ esd_btn_state_last' = esd_btn_state_last
           /\ output_data' = output_data /\ last_log' = last_log
           /\ ~output_data'.emitted ]_vars

\* the last standby iteration before the 3.0 s limit, nothing emitted so far
C38_Witness ==
  /\ phase = "standby"
  /\ last_update_time + ShortStep >= 300 /\ last_update_time < 300
  /\ ~output_data.emitted /\ last_log = 0
  /\ esd_btn_state_last

\* ---------------------------------------------------------------------------
\* C39: the queue of the simulated port.  Under every interleaving of the
\* generator thread and readline, data_queue holds at most 100 records after
\* each generator step and at most 101 at any time, neither thread pops from
\* an empty queue, and readline returns records in the order in which they
\* were generated.
C39_QueueSafe ==
  /\ Len(data_queue) <= 101
  /\ gen_pc \in {"sleep", "loop"} => Len(data_queue) <= 100
  /\ raised = {}
  /\ in_order


====
